---- MODULE Spec2Model ----
(***************************************************************************)
(* Model of the visibility sampling and best-time search of src/main.py:   *)
(* check_visibility, find_best_time, plot_visibility_timeline and the      *)
(* "Check Visibility" button handler of the dashboard.                     *)
(*                                                                         *)
(* Instants are whole hours on one absolute axis (astropy Time + timedelta *)
(* (hours=i) is modelled as t + i).  Altitudes are whole degrees.  The     *)
(* position provider (get_body / SkyCoord.from_name / transform_to) is the *)
(* environment: what it answers at each instant is described by an oracle  *)
(* drawn from a bounded family, and it fails for every identifier the      *)
(* library does not know.                                                  *)
(***************************************************************************)
EXTENDS Integers, Sequences, FiniteSets, TLC

VARIABLES
    pc,                \* position of the running operation
    body_name,         \* argument body_name of the function under call
    observation_time,  \* argument observation_time / start_time
    days,              \* argument days of plot_visibility_timeline, as a fraction num/DaysDen
    oracle,            \* what the provider answers inside the sampling loops
    qfix,              \* what the provider answers to check_visibility's own resolution
    best,              \* value returned by find_best_time
    timeline,          \* times and altitudes built by plot_visibility_timeline
    cv,                \* value returned by check_visibility
    body_names,        \* handler: the multiselect's selection
    idx,               \* handler: position in a loop over body_names
    visibility_infos,  \* handler: list visibility_infos
    body_coords,       \* handler: list body_coords
    errors,            \* handler: list errors
    computed_for,      \* history: the body each entry of visibility_infos was computed for
    shown              \* history: what has been handed to the presentation layer

vars == <<pc, body_name, observation_time, days, oracle, qfix, best, timeline, cv,
          body_names, idx, visibility_infos, body_coords, errors, computed_for, shown>>

----------------------------------------------------------------------------
(* Bounds of the model *)

MaxStart == 1
MaxCentre == 26
MaxWin == 5
WindowLen == 2
DaysDen == 5
MaxDaysNum == 15
MaxSel == 2

----------------------------------------------------------------------------
(* Catalog *)

bodies == <<"mercury", "venus", "mars", "jupiter", "saturn", "uranus", "neptune",
            "sirius", "vega">>

Catalog == {bodies[i] : i \in 1..Len(bodies)}

\* str.lower() on the identifiers the model uses
Lower(s) ==
    CASE s = "Jupiter" -> "jupiter"
      [] s = "Vega" -> "vega"
      [] s = "SIRIUS" -> "sirius"
      [] OTHER -> s

----------------------------------------------------------------------------
(* The position provider *)

Max2(a, b) == IF a >= b THEN a ELSE b

Abs(a) == IF a >= 0 THEN a ELSE -a

\* The identifiers the library resolves: get_body knows the solar-system bodies
\* (the moon among them, which the catalog dropped), from_name the two stars.
ProviderKnown == Catalog \cup {"moon"}

Failed == [ok |-> FALSE, alt |-> 0]

Fix(a) == [ok |-> TRUE, alt |-> a]

\* Altitude the oracle gives at instant t: a tent around o.centre, never below -90.
ProfileAlt(o, t) == Max2(-90, o.peak - o.slope * Abs(t - o.centre))

\* Whether the oracle makes the resolution at instant t raise.
Fails(o, t) ==
    IF t - o.win \in 0..(WindowLen - 1) THEN (t - o.win) \in o.bits ELSE o.outside

\* One resolution inside a try block: the branch on the star names, get_body or
\* from_name, transform_to, .alt.deg.
Resolve(body, t, o) ==
    IF Lower(body) \notin ProviderKnown THEN Failed
    ELSE IF Fails(o, t) THEN Failed
    ELSE Fix(ProfileAlt(o, t))

OracleSet(peaks, slopes, centres, wins) ==
    [peak : peaks, slope : slopes, centre : centres, win : wins,
     bits : SUBSET (0..(WindowLen - 1)), outside : BOOLEAN]

----------------------------------------------------------------------------
(* find_best_time *)

SAMPLES == 25

INITIAL_MAX == -90

\* Faulty variant: range(1, n + 1) in place of range(n)
SampleTimesShifted(start, n) == [i \in 1..n |-> start + i]

\* times = [start_time + timedelta(hours=i) for i in range(n)]
SampleTimes(start, n) == [i \in 1..n |-> start + (i - 1)]

RECURSIVE BestLoop(_, _, _, _, _, _)
\* for t in times: try ... if alt > max_altitude: ... except: continue
BestLoop(body, times, i, max_altitude, best_time, o) ==
    IF i > Len(times) THEN [best_time |-> best_time, max_altitude |-> max_altitude]
    ELSE LET r == Resolve(body, times[i], o)
         IN IF r.ok /\ r.alt > max_altitude
            THEN BestLoop(body, times, i + 1, r.alt, times[i], o)
            ELSE BestLoop(body, times, i + 1, max_altitude, best_time, o)

\* Faulty variant: the running maximum starts at 0 in place of -90
find_best_time_from_zero(body, start_time, o) ==
    BestLoop(body, SampleTimes(start_time, SAMPLES), 1, 0, start_time, o)

find_best_time(body, start_time, o) ==
    BestLoop(body, SampleTimes(start_time, SAMPLES), 1, INITIAL_MAX, start_time, o)

----------------------------------------------------------------------------
(* plot_visibility_timeline *)

\* hours = int(days * 24) for days = num / DaysDen; int truncates toward zero,
\* which for a positive days is the integer quotient
TimelineHours(num) == (num * 24) \div DaysDen

RECURSIVE TimelineLoopSkipping(_, _, _, _, _)
\* Faulty variant: a failing sample is skipped in place of recorded as 0
TimelineLoopSkipping(body, times, i, altitudes, o) ==
    IF i > Len(times) THEN altitudes
    ELSE LET r == Resolve(body, times[i], o)
         IN TimelineLoopSkipping(body, times, i + 1,
                IF r.ok THEN Append(altitudes, r.alt) ELSE altitudes, o)

RECURSIVE TimelineLoop(_, _, _, _, _)
\* for t in times: try ... altitudes.append(alt) except: altitudes.append(0)
TimelineLoop(body, times, i, altitudes, o) ==
    IF i > Len(times) THEN altitudes
    ELSE LET r == Resolve(body, times[i], o)
         IN TimelineLoop(body, times, i + 1,
                Append(altitudes, IF r.ok THEN r.alt ELSE 0), o)

\* The x and y of the trace of the figure.  x holds the instants of times, each
\* shown in the Asia/Kolkata zone; the instant itself is what the model keeps.
plot_visibility_timeline(body, start, num, o) ==
    LET times == SampleTimes(start, TimelineHours(num) + 1)
    IN [times |-> times, altitudes |-> TimelineLoop(body, times, 1, <<>>, o)]

----------------------------------------------------------------------------
(* check_visibility *)

THRESHOLD == 10

\* Faulty variant: altitude >= 10 in place of altitude > 10
VisibleAtOrAbove(altitude) == altitude >= THRESHOLD

\* 'visible': altitude > 10
Visible(altitude) == altitude > THRESHOLD

\* The resolution of check_visibility's own try block at the query instant:
\* an identifier the library does not know always raises, any other may.
QueryResolve(body, q) ==
    IF Lower(body) \notin ProviderKnown
    THEN [ok |-> FALSE, alt |-> 0, az |-> 0, exc |-> "KeyError"]
    ELSE q

\* f"Error: Unable to find coordinates for '{body_name}' ({e})."
ErrorMessage(body, exc) == <<"Error: Unable to find coordinates for", body, exc>>

\* A message lists the supported catalog when it names every body of it
ListsCatalog(msg) ==
    \A b \in Catalog : \E i \in 1..Len(msg) : msg[i] = b

\* Faulty variant: a failing sample of the best-time search escapes find_best_time and
\* reaches the except clause of check_visibility
check_visibility_escalating(body, t, q, o) ==
    LET r == QueryResolve(body, q)
        b == find_best_time(body, t, o)
    IN IF r.ok /\ \A k \in 0..(SAMPLES - 1) : Resolve(body, t + k, o).ok
       THEN [info |-> <<[altitude |-> r.alt, azimuth |-> r.az,
                        visible |-> Visible(r.alt),
                        best_time |-> b.best_time,
                        max_altitude |-> b.max_altitude]>>,
             error |-> <<>>,
             coord |-> <<[body |-> Lower(body)]>>,
             entered |-> {"find_best_time"}]
       ELSE [info |-> <<>>,
             error |-> ErrorMessage(body, IF r.ok THEN "ResolutionError" ELSE r.exc),
             coord |-> <<>>,
             entered |-> IF r.ok THEN {"find_best_time"} ELSE {}]

\* The triple check_visibility returns (None is the empty sequence), with the
\* sampling functions the call entered.
check_visibility(body, t, q, o) ==
    LET r == QueryResolve(body, q)
    IN IF r.ok
       THEN LET b == find_best_time(body, t, o)
            IN [info |-> <<[altitude |-> r.alt, azimuth |-> r.az,
                            visible |-> Visible(r.alt),
                            best_time |-> b.best_time,
                            max_altitude |-> b.max_altitude]>>,
                error |-> <<>>,
                coord |-> <<[body |-> Lower(body)]>>,
                entered |-> {"find_best_time"}]
       ELSE [info |-> <<>>,
             error |-> ErrorMessage(body, r.exc),
             coord |-> <<>>,
             entered |-> {}]

----------------------------------------------------------------------------
(* Values of the variables an operation does not use *)

NoBest == [best_time |-> 0, max_altitude |-> 0]

NoTimeline == [times |-> <<>>, altitudes |-> <<>>]

NoCv == [info |-> <<>>, error |-> <<>>, coord |-> <<>>, entered |-> {}]

NoOracle == [peak |-> 0, slope |-> 0, centre |-> 0, win |-> 0, bits |-> {}, outside |-> FALSE]

NoFix == [ok |-> FALSE, alt |-> 0, az |-> 0, exc |-> "none"]

HandlerIdle ==
    /\ body_names = <<>>
    /\ idx = 0
    /\ visibility_infos = <<>>
    /\ body_coords = <<>>
    /\ errors = <<>>
    /\ computed_for = <<>>
    /\ shown = <<>>

handlerVars == <<body_names, idx, visibility_infos, body_coords, errors, computed_for, shown>>

inputVars == <<body_name, observation_time, days, oracle, qfix>>

----------------------------------------------------------------------------
(* Specification of find_best_time alone *)

BestBodies == {"jupiter", "Vega", "pluto"}

BestOracles == OracleSet({-90, -88, 45}, {0, 1}, 0..MaxCentre, 0..MaxWin)

InitBest ==
    /\ pc = "call"
    /\ body_name \in BestBodies
    /\ observation_time \in 0..MaxStart
    /\ oracle \in BestOracles
    /\ days = 0
    /\ qfix = NoFix
    /\ best = NoBest
    /\ timeline = NoTimeline
    /\ cv = NoCv
    /\ HandlerIdle

FindBestTime ==
    /\ pc = "call"
    /\ best' = find_best_time(body_name, observation_time, oracle)
    /\ pc' = "done"
    /\ UNCHANGED <<inputVars, timeline, cv, handlerVars>>

NextBest == FindBestTime

SpecBest == InitBest /\ [][NextBest]_vars

\* What the provider answers to the samples of the call in progress, by
\* offset k = 0..24
LAST_OFFSET == 24

Offsets == 0..LAST_OFFSET

Samples == [k \in Offsets |-> Resolve(body_name, observation_time + k, oracle)]

\* k is a resolved sample of s that no resolved sample exceeds
IsMaxAt(s, k) == s[k].ok /\ \A j \in Offsets : s[j].ok => s[j].alt <= s[k].alt

\* k is the earliest of the resolved samples of s at the maximum altitude
IsEarliestMaxAt(s, k) ==
    /\ s[k].ok
    /\ \A j \in Offsets : s[j].ok => IF j < k THEN s[j].alt < s[k].alt
                                              ELSE s[j].alt <= s[k].alt

\* another resolved sample shares the altitude of sample k
HasTieAt(s, k) == \E j \in Offsets : j # k /\ s[j].ok /\ s[j].alt = s[k].alt

\* C1: whenever at least one of the 25 samples resolves, the returned altitude
\* is the maximum over the resolved samples and the returned instant is a
\* sampled instant whose sample resolved with exactly that altitude.
C1_BestIsMaxOfResolved ==
    pc = "done" =>
        LET s == Samples
        IN (\E k \in Offsets : s[k].ok) =>
              /\ \E k \in Offsets : IsMaxAt(s, k) /\ best.max_altitude = s[k].alt
              /\ \E k \in Offsets :
                    /\ s[k].ok
                    /\ best.best_time = observation_time + k
                    /\ s[k].alt = best.max_altitude

\* The part of C1 the code does keep: the returned altitude is always the
\* maximum over the resolved samples, and the returned instant resolved with it
\* whenever that maximum is above the initial running maximum of -90.
BestIsMaxAboveFloor ==
    pc = "done" =>
        LET s == Samples
        IN (\E k \in Offsets : s[k].ok) =>
              /\ \E k \in Offsets : IsMaxAt(s, k) /\ best.max_altitude = s[k].alt
              /\ best.max_altitude > INITIAL_MAX =>
                    \E k \in Offsets :
                        /\ s[k].ok
                        /\ best.best_time = observation_time + k
                        /\ s[k].alt = best.max_altitude

\* A single maximum at start+5h of a rising-then-falling profile is returned.
SinglePeakAtFive ==
    /\ pc = "done"
    /\ oracle.slope > 0
    /\ oracle.centre = observation_time + 5
    /\ \A k \in Offsets : Samples[k].ok
    /\ best = [best_time |-> observation_time + 5, max_altitude |-> 45]

\* C2: the returned instant is start + k hours for some integer k in 0..24.
C2_BestTimeOnGrid ==
    pc = "done" => \E k \in 0..LAST_OFFSET : best.best_time = observation_time + k

\* The last sample of the window is returned when the altitude is still rising there.
C2_Witness ==
    /\ pc = "done"
    /\ best.best_time = observation_time + LAST_OFFSET
    /\ best.max_altitude > INITIAL_MAX

\* C4: if every one of the 25 samples fails, the result is (start_instant, -90).
C4_AllFail ==
    (pc = "done" /\ \A k \in Offsets : ~Samples[k].ok) =>
        best = [best_time |-> observation_time, max_altitude |-> -90]

\* Every sample of a body the provider knows failed, and the call returned.
C4_Witness ==
    /\ pc = "done"
    /\ Lower(body_name) \in ProviderKnown
    /\ \A k \in Offsets : ~Samples[k].ok
    /\ best.best_time = observation_time

\* C5: when two or more resolved samples share the maximum altitude, the
\* returned instant is the earliest of them.
C5_EarliestOnTie ==
    pc = "done" =>
        LET s == Samples
        IN \A k \in Offsets :
              (IsEarliestMaxAt(s, k) /\ HasTieAt(s, k)) =>
                  best.best_time = observation_time + k

\* The part of C5 the code does keep: ties above -90 go to the earliest instant.
EarliestOnTieAboveFloor ==
    pc = "done" =>
        LET s == Samples
        IN \A k \in Offsets :
              (IsEarliestMaxAt(s, k) /\ HasTieAt(s, k) /\ s[k].alt > INITIAL_MAX) =>
                  best.best_time = observation_time + k

\* A tie above -90 whose earliest instant is not the start instant.
TieAwayFromStart ==
    /\ pc = "done"
    /\ \E k \in Offsets \ {0} :
          /\ IsEarliestMaxAt(Samples, k)
          /\ HasTieAt(Samples, k)
          /\ Samples[k].alt > INITIAL_MAX
          /\ best.best_time = observation_time + k

----------------------------------------------------------------------------
(* Specification of plot_visibility_timeline alone *)

TimelineBodies == {"jupiter", "Vega", "pluto"}

TimelineOracles == OracleSet({45}, {1}, {5}, 0..MaxWin)

InitTimeline ==
    /\ pc = "call"
    /\ body_name \in TimelineBodies
    /\ observation_time \in 0..MaxStart
    /\ days \in 1..MaxDaysNum
    /\ oracle \in TimelineOracles
    /\ qfix = NoFix
    /\ best = NoBest
    /\ timeline = NoTimeline
    /\ cv = NoCv
    /\ HandlerIdle

PlotVisibilityTimeline ==
    /\ pc = "call"
    /\ timeline' = plot_visibility_timeline(body_name, observation_time, days, oracle)
    /\ pc' = "done"
    /\ UNCHANGED <<inputVars, best, cv, handlerVars>>

NextTimeline == PlotVisibilityTimeline

SpecTimeline == InitTimeline /\ [][NextTimeline]_vars

\* h is floor(days * 24) for days = num / DaysDen
IsFloorOfHours(h, num) == h * DaysDen <= num * 24 /\ num * 24 < (h + 1) * DaysDen

\* C3: with hours = floor(days*24), the timeline holds exactly hours+1
\* altitudes, entry k for instant start + k hours (25 entries for days = 1); a
\* failing sample contributes altitude 0 at its own slot k, and the time list
\* and the altitude list have the same length.
C3_TimelineShape ==
    pc = "done" =>
        \E h \in 0..(24 * MaxDaysNum) :
            /\ IsFloorOfHours(h, days)
            /\ Len(timeline.altitudes) = h + 1
            /\ Len(timeline.times) = Len(timeline.altitudes)
            /\ days = DaysDen => Len(timeline.altitudes) = 25
            /\ \A k \in 0..h :
                  LET r == Resolve(body_name, observation_time + k, oracle)
                  IN /\ timeline.times[k + 1] = observation_time + k
                     /\ timeline.altitudes[k + 1] = IF r.ok THEN r.alt ELSE 0

\* A one-day timeline in which a sample after the first failed and a later one
\* resolved: 25 entries, the failed slot holding 0.
C3_Witness ==
    /\ pc = "done"
    /\ days = DaysDen
    /\ Len(timeline.altitudes) = 25
    /\ \E k \in 1..23 :
          /\ ~Resolve(body_name, observation_time + k, oracle).ok
          /\ timeline.altitudes[k + 1] = 0
          /\ Resolve(body_name, observation_time + k + 1, oracle).ok
          /\ timeline.altitudes[k + 2] # 0

\* A fractional number of days whose hours are rounded down
FractionalDaysFloor ==
    /\ pc = "done"
    /\ (days * 24) % DaysDen # 0
    /\ Len(timeline.altitudes) > 1

----------------------------------------------------------------------------
(* Specification of check_visibility alone *)

CheckBodies == {"jupiter", "Vega", "SIRIUS", "moon", "pluto"}

CheckOracles == OracleSet({5, 45}, {1}, {5}, 0..MaxWin)

QueryFixes ==
    [ok : {TRUE}, alt : {-5, 10, 11}, az : {0, 180}, exc : {"none"}]
        \cup [ok : {FALSE}, alt : {0}, az : {0}, exc : {"ResolutionError"}]

InitCheck ==
    /\ pc = "call"
    /\ body_name \in CheckBodies
    /\ observation_time \in 0..MaxStart
    /\ days = 0
    /\ oracle \in CheckOracles
    /\ qfix \in QueryFixes
    /\ best = NoBest
    /\ timeline = NoTimeline
    /\ cv = NoCv
    /\ HandlerIdle

CheckVisibility ==
    /\ pc = "call"
    /\ cv' = check_visibility(body_name, observation_time, qfix, oracle)
    /\ pc' = "done"
    /\ UNCHANGED <<inputVars, best, timeline, handlerVars>>

NextCheck == CheckVisibility

SpecCheck == InitCheck /\ [][NextCheck]_vars

\* C6: every verdict of a successful check_visibility has
\* visible == (altitude > 10), altitude being the one resolved at the query
\* instant; altitude exactly 10 is not visible, and the flag does not depend on
\* max_altitude.
C6_VisibleIffAboveTen ==
    (pc = "done" /\ cv.error = <<>>) =>
        /\ Len(cv.info) = 1
        /\ cv.info[1].altitude = qfix.alt
        /\ cv.info[1].visible <=> (qfix.alt > 10)

\* A verdict at altitude exactly 10, not visible, whose best-time altitude is above 10.
C6_Witness ==
    /\ pc = "done"
    /\ cv.error = <<>>
    /\ cv.info[1].altitude = 10
    /\ ~cv.info[1].visible
    /\ cv.info[1].max_altitude > 10

\* C7: an evaluation of an identifier outside the supported catalog fails with
\* a message listing the catalog, and no sampling loop is entered for it.
C7_UnknownBodyFailsFast ==
    (pc = "done" /\ Lower(body_name) \notin Catalog) =>
        /\ cv.info = <<>>
        /\ cv.error # <<>>
        /\ ListsCatalog(cv.error)
        /\ cv.entered = {}

\* The part of C7 the code does keep: an identifier the provider does not know
\* fails before find_best_time is called.
UnknownToProviderFailsFirst ==
    (pc = "done" /\ Lower(body_name) \notin ProviderKnown) =>
        /\ cv.info = <<>>
        /\ cv.error # <<>>
        /\ cv.entered = {}

\* C9: check_visibility succeeds exactly when the resolution at the query
\* instant succeeds; failing samples of the best-time search never fail the
\* evaluation (all failing, they leave best_time at the query instant and
\* max_altitude at -90), and a failing query resolution returns an error with
\* no verdict and no coordinate.
C9_SuccessIffQueryResolves ==
    pc = "done" =>
        LET resolves == Lower(body_name) \in ProviderKnown /\ qfix.ok
            allFail == \A k \in Offsets : ~Samples[k].ok
        IN /\ (cv.error = <<>>) <=> resolves
           /\ resolves => Len(cv.info) = 1 /\ Len(cv.coord) = 1
           /\ (resolves /\ allFail) =>
                 /\ cv.info[1].best_time = observation_time
                 /\ cv.info[1].max_altitude = -90
           /\ ~resolves => cv.info = <<>> /\ cv.coord = <<>>

\* A successful evaluation whose best-time search lost some but not all of its samples.
C9_Witness ==
    /\ pc = "done"
    /\ cv.error = <<>>
    /\ \E k \in Offsets : ~Samples[k].ok
    /\ \E k \in Offsets : Samples[k].ok

\* A successful evaluation all of whose best-time samples failed.
DegradedBestTime ==
    /\ pc = "done"
    /\ cv.error = <<>>
    /\ \A k \in Offsets : ~Samples[k].ok
    /\ cv.info[1].best_time = observation_time
    /\ cv.info[1].max_altitude = -90

----------------------------------------------------------------------------
(* Specification of the "Check Visibility" button handler *)

\* The bodies offered for selection in the model, a part of the catalog
SelectPool == {"mercury", "jupiter", "sirius"}

\* st.multiselect: distinct options, in the order they were picked
Selections ==
    {sel \in UNION {[1..n -> SelectPool] : n \in 0..MaxSel} :
        \A i, j \in 1..Len(sel) : i # j => sel[i] # sel[j]}

\* st.slider("Visibility Timeline Days", 1, 3, 1)
TimelineDays == 1..3

BatchOracles ==
    {o \in OracleSet({45}, {1}, {5}, {0}) : o.bits = {} \/ (o.bits = {0, 1} /\ o.outside)}

BatchFixes ==
    [ok : {TRUE}, alt : {5, 45}, az : {0}, exc : {"none"}]
        \cup [ok : {FALSE}, alt : {0}, az : {0}, exc : {"ResolutionError"}]

Min2(a, b) == IF a <= b THEN a ELSE b

\* zip(a, b): pairs up to the shorter of the two lists
Zip(a, b) == [i \in 1..Min2(Len(a), Len(b)) |-> <<a[i], b[i]>>]

\* Faulty variant: the results are rendered whether or not a body failed
RenderAlways(errs) == TRUE

\* The else of "if errors:", the branch that renders results
RendersResults(errs) == errs = <<>>

InitBatch ==
    /\ pc = "idle"
    /\ body_name = ""
    /\ observation_time \in 0..MaxStart
    /\ days \in {d * DaysDen : d \in TimelineDays}
    /\ oracle = NoOracle
    /\ qfix = NoFix
    /\ best = NoBest
    /\ timeline = NoTimeline
    /\ cv = NoCv
    /\ body_names \in Selections
    /\ idx = 0
    /\ visibility_infos = <<>>
    /\ body_coords = <<>>
    /\ errors = <<>>
    /\ computed_for = <<>>
    /\ shown = <<>>

\* if st.button(...): visibility_infos = []; body_coords = []; errors = []
Click ==
    /\ pc = "idle"
    /\ visibility_infos' = <<>>
    /\ body_coords' = <<>>
    /\ errors' = <<>>
    /\ computed_for' = <<>>
    /\ idx' = 1
    /\ pc' = "evaluate"
    /\ UNCHANGED <<inputVars, best, timeline, cv, body_names, shown>>

\* One iteration of "for body_name in body_names" around check_visibility
EvaluateBody ==
    /\ pc = "evaluate"
    /\ idx <= Len(body_names)
    /\ \E q \in BatchFixes, o \in BatchOracles :
          LET r == check_visibility(body_names[idx], observation_time, q, o)
          IN /\ cv' = r
             /\ IF r.error # <<>>
                THEN /\ errors' = Append(errors, r.error)
                     /\ UNCHANGED <<visibility_infos, body_coords, computed_for>>
                ELSE /\ visibility_infos' = Append(visibility_infos, r.info[1])
                     /\ body_coords' = Append(body_coords, r.coord[1])
                     /\ computed_for' = Append(computed_for, body_names[idx])
                     /\ UNCHANGED errors
    /\ body_name' = body_names[idx]
    /\ idx' = idx + 1
    /\ UNCHANGED <<pc, observation_time, days, oracle, qfix, best, timeline, body_names, shown>>

\* if errors: for error in errors: st.error(error)
ShowErrors ==
    /\ pc = "evaluate"
    /\ idx > Len(body_names)
    /\ ~RendersResults(errors)
    /\ shown' = shown \o [i \in 1..Len(errors) |-> [kind |-> "error", body |-> errors[i][2], points |-> 0]]
    /\ pc' = "done"
    /\ UNCHANGED <<inputVars, best, timeline, cv, body_names, idx, visibility_infos,
                   body_coords, errors, computed_for>>

\* else: the branch that renders is entered
EnterResults ==
    /\ pc = "evaluate"
    /\ idx > Len(body_names)
    /\ RendersResults(errors)
    /\ pc' = "results"
    /\ UNCHANGED <<inputVars, best, timeline, cv, handlerVars>>

\* for body_name, visibility_info in zip(body_names, visibility_infos): ...
ShowResults ==
    /\ pc = "results"
    /\ LET z == Zip(body_names, visibility_infos)
       IN shown' = shown \o [i \in 1..Len(z) |->
                        [kind |-> "result", body |-> z[i][1], points |-> 0]]
    /\ pc' = "skymap"
    /\ UNCHANGED <<inputVars, best, timeline, cv, body_names, idx, visibility_infos,
                   body_coords, errors, computed_for>>

\* plot_sky_map(body_names, body_coords, ...): transform_to is not guarded, so
\* a provider failure leaves the handler by an exception
ShowSkyMap ==
    /\ pc = "skymap"
    /\ \E raised \in BOOLEAN :
          IF raised /\ Zip(body_names, body_coords) # <<>>
          THEN pc' = "aborted" /\ UNCHANGED <<shown, idx>>
          ELSE /\ LET z == Zip(body_names, body_coords)
                  IN shown' = shown \o [i \in 1..Len(z) |->
                                   [kind |-> "skymap", body |-> z[i][1], points |-> 0]]
               /\ idx' = 1
               /\ pc' = "timeline"
    /\ UNCHANGED <<inputVars, best, timeline, cv, body_names, visibility_infos,
                   body_coords, errors, computed_for>>

\* One iteration of "for body_name in body_names" around plot_visibility_timeline;
\* the figure goes straight to st.plotly_chart and is not kept
ShowTimeline ==
    /\ pc = "timeline"
    /\ idx <= Len(body_names)
    /\ \E o \in BatchOracles :
          LET fig == plot_visibility_timeline(body_names[idx], observation_time, days, o)
          IN shown' = Append(shown, [kind |-> "timeline", body |-> body_names[idx],
                                     points |-> Len(fig.altitudes)])
    /\ idx' = idx + 1
    /\ UNCHANGED <<pc, inputVars, best, timeline, cv, body_names,
                   visibility_infos, body_coords, errors, computed_for>>

\* generate_pdf(body_names, visibility_infos, ...): reads visibility_infos[0]
\* first, which raises on an empty list
ShowPdf ==
    /\ pc = "timeline"
    /\ idx > Len(body_names)
    /\ IF visibility_infos = <<>>
       THEN pc' = "aborted" /\ UNCHANGED shown
       ELSE /\ LET z == Zip(body_names, visibility_infos)
               IN shown' = shown \o [i \in 1..Len(z) |->
                                [kind |-> "pdf", body |-> z[i][1], points |-> 0]]
            /\ pc' = "done"
    /\ UNCHANGED <<inputVars, best, timeline, cv, body_names, idx, visibility_infos,
                   body_coords, errors, computed_for>>

NextBatch ==
    \/ Click
    \/ EvaluateBody
    \/ ShowErrors
    \/ EnterResults
    \/ ShowResults
    \/ ShowSkyMap
    \/ ShowTimeline
    \/ ShowPdf

SpecBatch == InitBatch /\ [][NextBatch]_vars

Shown(kind, body) ==
    \E i \in 1..Len(shown) : shown[i].kind = kind /\ shown[i].body = body

Succeeded(body) == \E i \in 1..Len(computed_for) : computed_for[i] = body

\* C8: in the batch check a failure is scoped to the body that failed: it is
\* skipped and its error collected, every other selected body is still
\* evaluated, and the verdicts of the bodies that succeeded are still handed
\* to the presentation layer.
C8_FailureScopedToBody ==
    pc = "done" =>
        /\ Len(errors) + Len(visibility_infos) = Len(body_names)
        /\ \A i \in 1..Len(body_names) :
              Succeeded(body_names[i]) => Shown("result", body_names[i])

\* The part of C8 the code does keep: every selected body is evaluated, each
\* failure is collected and each success kept, whatever the other bodies did.
EveryBodyEvaluated ==
    (pc # "idle" /\ (pc = "evaluate" => idx > Len(body_names))) =>
        /\ Len(errors) + Len(visibility_infos) = Len(body_names)
        /\ \A i \in 1..Len(body_names) :
              Succeeded(body_names[i])
                  \/ \E j \in 1..Len(errors) : errors[j][2] = body_names[i]

\* C10: wherever per-body results are rendered by zipping body_names with
\* visibility_infos or body_coords, both lists are as long as body_names and
\* their i-th entries were computed for the i-th selected body.
C10_ListsAligned ==
    (pc \in {"results", "skymap"} \/ (pc = "timeline" /\ idx > Len(body_names))) =>
        /\ Len(visibility_infos) = Len(body_names)
        /\ Len(body_coords) = Len(body_names)
        /\ \A i \in 1..Len(body_names) :
              /\ computed_for[i] = body_names[i]
              /\ body_coords[i].body = Lower(body_names[i])

\* Two bodies with different verdicts are about to be rendered.
C10_Witness ==
    /\ pc = "results"
    /\ Len(body_names) = 2
    /\ Len(visibility_infos) = 2
    /\ visibility_infos[1] # visibility_infos[2]

====
